---- MODULE Spec2Model ----
(***************************************************************************)
(* A model of tmux-widget (src/main.rs): the command line loop, the fan-out *)
(* of one thread per requested metric, the join / sort / print of main, and *)
(* the number formatter (pretty_size, max_width_float) and rate sampler     *)
(* (network_bandwidth) the renderers are made of.                           *)
(*                                                                         *)
(* Numbers.  The counters are u64 and TLC's integers are 32 bits wide, so a *)
(* u64 is a little-endian tuple of NLimbs digits of base Base (1024); the   *)
(* top digit holds the remaining 4 bits.  An f64 the program computes is    *)
(* always a u64 rounded to 53 bits and divided by 1024.0 a few times, i.e.  *)
(* a dyadic rational mant / 1024^scale, or NaN; it is kept exactly.         *)
(* Text is a tuple of one-character strings.                                *)
(***************************************************************************)
EXTENDS Integers, Sequences, FiniteSets

VARIABLES
    supported,   \* System::IS_SUPPORTED
    pc,          \* where main is: "start", "parse", "spawn", "join", "exited"
    cfg,         \* main's Config
    ops,         \* the renderers requested, in command line order
    arg,         \* the argument the loop holds (<<>> outside the loop)
    val,         \* the text that followed --interval (<<>> when none was read)
    threads,     \* one record per spawned thread, in spawn order
    outputs,     \* the (i, text) pairs joined so far
    finished,    \* <<i>> for the thread that ended first, <<>> before
    stdout,      \* the lines printed
    stderr,      \* the messages written to standard error
    exit_code,   \* the exit status, -1 while the process runs
    call,        \* a formatter or sampler call on its own: its arguments
    ret          \* and what it returned

vars == <<supported, pc, cfg, ops, arg, val, threads, outputs, finished,
          stdout, stderr, exit_code, call, ret>>


(***************************************************************************)
(* u64                                                                     *)
(***************************************************************************)
Base == 1024
NLimbs == 7
TopBase == 16

LimbBase(i) == IF i = NLimbs THEN TopBase ELSE Base

\* A function on 1..n as the tuple it is (TLC then holds its values, where it
\* would evaluate the function's body at every use).
AsTuple(f) == SubSeq(f, 1, Len(f))

U64 == { s \in [1..NLimbs -> 0..(Base - 1)] : s[NLimbs] < TopBase }

Zero == AsTuple([i \in 1..NLimbs |-> 0])

\* u64::MAX
MAX == AsTuple([i \in 1..NLimbs |-> LimbBase(i) - 1])

\* The u64 of a literal n < 1024^3.
Lit(n) == AsTuple([i \in 1..NLimbs |->
            IF i = 1 THEN n % Base
            ELSE IF i = 2 THEN (n \div Base) % Base
            ELSE IF i = 3 THEN n \div (Base * Base)
            ELSE 0])

\* x * 1024 for a literal x whose top digit is 0 (the products 1000 * 1024 * ...).
Times1024(x) == AsTuple([i \in 1..NLimbs |-> IF i = 1 THEN 0 ELSE x[i - 1]])

\* a < b on u64
LessThan(a, b) ==
    \E i \in 1..NLimbs : a[i] < b[i] /\ \A j \in (i + 1)..NLimbs : a[j] = b[j]

\* u64::saturating_sub: what a subtraction that does not wrap would give.
saturating_sub(a, b) ==
    IF LessThan(a, b) THEN Zero
    ELSE LET br[i \in 1..NLimbs] ==
                 IF i = 1 THEN 0
                 ELSE IF a[i - 1] - b[i - 1] - br[i - 1] < 0 THEN 1 ELSE 0
         IN  AsTuple([i \in 1..NLimbs |->
                      (a[i] - b[i] - br[i] + LimbBase(i)) % LimbBase(i)])

\* u64::wrapping_sub: a - b modulo 2^64, digit by digit with a borrow; the borrow
\* out of the top digit is dropped.
wrapping_sub(a, b) ==
    LET br[i \in 1..NLimbs] ==
            IF i = 1 THEN 0
            ELSE IF a[i - 1] - b[i - 1] - br[i - 1] < 0 THEN 1 ELSE 0
    IN  AsTuple([i \in 1..NLimbs |->
                      (a[i] - b[i] - br[i] + LimbBase(i)) % LimbBase(i)])

\* u64 / u64 for a divisor that fits one digit: long division from the top digit.
\* The caller checks d # 0 (a zero divisor panics).
DivSmall(a, d) ==
    LET rem[i \in 1..(NLimbs + 1)] ==
            IF i = NLimbs + 1 THEN 0
            ELSE (rem[i + 1] * LimbBase(i) + a[i]) % d
    IN  AsTuple([i \in 1..NLimbs |-> (rem[i + 1] * LimbBase(i) + a[i]) \div d])

(***************************************************************************)
(* f64: [nan, mant, scale] is mant / 1024^scale; mant is a tuple of NLimbs *)
(* digits whose top digit may reach TopBase (2^64 itself is an f64).       *)
(***************************************************************************)
NaN == [nan |-> TRUE, mant |-> Zero, scale |-> 0]

RECURSIVE BitLen(_)
BitLen(n) == IF n = 0 THEN 0 ELSE 1 + BitLen(n \div 2)

\* Bits below digit i of a mantissa.
Base10Bits(i) == 10 * (i - 1)

RECURSIVE Pow2(_)
Pow2(n) == IF n = 0 THEN 1 ELSE 2 * Pow2(n - 1)

\* mant + c * 1024^(i-1), carries propagated, the top digit left unreduced.
RECURSIVE AddAt(_, _, _)
AddAt(m, i, c) ==
    IF c = 0 THEN m
    ELSE IF i = NLimbs THEN [m EXCEPT ![i] = @ + c]
    ELSE AddAt([m EXCEPT ![i] = (@ + c) % Base], i + 1, (m[i] + c) \div Base)

\* `s as f64`: exact below 2^53, else rounded to 53 significant bits, ties to even.
AsF64(s) ==
    LET top  == s[NLimbs] * Base + s[NLimbs - 1]      \* bits 50..63
        d    == BitLen(top) - 3                       \* bits to drop
        low  == s[2] * Base + s[1]
        q    == Pow2(d)
        r    == low % q
        odd  == (low \div q) % 2 = 1
        up   == r > q \div 2 \/ (r = q \div 2 /\ odd)
        kept == [s EXCEPT ![1] = (low - r) % Base, ![2] = (low - r) \div Base]
    IN  IF top < 8 THEN [nan |-> FALSE, mant |-> s, scale |-> 0]
        ELSE [nan |-> FALSE,
              mant |-> IF up THEN AddAt(AddAt(kept, 1, q % Base), 2, q \div Base)
                       ELSE kept,
              scale |-> 0]

\* v / 1024.0: exact, the exponent moves.
Div1024(v) == IF v.nan THEN v ELSE [v EXCEPT !.scale = @ + 1]

\* The integer part of v (it is below 2^31 wherever the program formats one).
RECURSIVE IntFrom(_, _)
IntFrom(m, i) == IF i > NLimbs THEN 0 ELSE m[i] + Base * IntFrom(m, i + 1)

IntPart(v) == IntFrom(v.mant, v.scale + 1)

\* The fraction of v: its base-1024 digits after the point, the first one first.
FracLimbs(v) == AsTuple([j \in 1..v.scale |-> v.mant[v.scale + 1 - j]])

(***************************************************************************)
(* Text and the formatting of an f64 with a precision: format!("{:.*}")    *)
(***************************************************************************)
DigitChars == <<"0", "1", "2", "3", "4", "5", "6", "7", "8", "9">>

RECURSIVE DecDigits(_)
DecDigits(n) == IF n < 10 THEN <<n>> ELSE Append(DecDigits(n \div 10), n % 10)

\* f * 10 for a fraction f: the digit carried out and the fraction left.
RECURSIVE Mul10(_)
Mul10(f) ==
    IF Len(f) = 0 THEN [digit |-> 0, rest |-> <<>>]
    ELSE LET t == Mul10(Tail(f))
             x == f[1] * 10 + t.digit
         IN  [digit |-> x \div Base, rest |-> <<x % Base>> \o t.rest]

\* The first p decimal digits of the fraction f and what is left of it.
RECURSIVE FracDigits(_, _)
FracDigits(f, p) ==
    IF p = 0 THEN [digits |-> <<>>, rest |-> f]
    ELSE LET m == Mul10(f)
             t == FracDigits(m.rest, p - 1)
         IN  [digits |-> <<m.digit>> \o t.digits, rest |-> t.rest]

\* The remainder against one half: -1 below, 0 a tie, 1 above.
CmpHalf(f) ==
    IF Len(f) = 0 THEN -1
    ELSE IF f[1] > Base \div 2 THEN 1
    ELSE IF f[1] < Base \div 2 THEN -1
    ELSE IF \E j \in 2..Len(f) : f[j] # 0 THEN 1 ELSE 0

\* A decimal digit string plus one.
RECURSIVE IncDigits(_)
IncDigits(ds) ==
    IF Len(ds) = 0 THEN <<1>>
    ELSE IF ds[Len(ds)] < 9 THEN [ds EXCEPT ![Len(ds)] = @ + 1]
    ELSE Append(IncDigits(SubSeq(ds, 1, Len(ds) - 1)), 0)

\* format!("{:.*}", p, v): v rounded to p decimals (ties to even), "NaN" for NaN.
FormatPrec(v, p) ==
    IF v.nan THEN <<"N", "a", "N">>
    ELSE LET fd   == FracDigits(FracLimbs(v), p)
             all  == DecDigits(IntPart(v)) \o fd.digits
             c    == CmpHalf(fd.rest)
             up   == c = 1 \/ (c = 0 /\ all[Len(all)] % 2 = 1)
             ds   == IF up THEN IncDigits(all) ELSE all
             n    == Len(ds) - p
             chr  == AsTuple([i \in 1..Len(ds) |-> DigitChars[ds[i] + 1]])
         IN  IF p = 0 THEN chr
             ELSE SubSeq(chr, 1, n) \o <<".">> \o SubSeq(chr, n + 1, Len(ds))

\* str.split('.')[0]
RECURSIVE SplitHead(_)
SplitHead(s) ==
    IF Len(s) = 0 \/ s[1] = "." THEN <<>> ELSE <<s[1]>> \o SplitHead(Tail(s))

\* str.trim_end_matches(c)
RECURSIVE trim_end_matches(_, _)
trim_end_matches(s, c) ==
    IF Len(s) > 0 /\ s[Len(s)] = c
    THEN trim_end_matches(SubSeq(s, 1, Len(s) - 1), c)
    ELSE s

\* max_width_float with the trailing zeros left in place.
max_width_float_untrimmed(v, max_width, remove_trail) ==
    LET integer == SplitHead(FormatPrec(v, max_width))
    IN  IF Len(integer) + 1 >= max_width THEN FormatPrec(v, 0)
        ELSE FormatPrec(v, max_width - Len(integer) - 1)

\* max_width_float with no column kept for the decimal point.
max_width_float_no_point(v, max_width, remove_trail) ==
    LET integer == SplitHead(FormatPrec(v, max_width))
    IN  IF Len(integer) + 1 >= max_width THEN FormatPrec(v, 0)
        ELSE LET value2 == FormatPrec(v, max_width - Len(integer))
             IN  IF remove_trail
                 THEN trim_end_matches(trim_end_matches(value2, "0"), ".")
                 ELSE value2

\* fn max_width_float(v: f64, max_width: usize, remove_trail: bool) -> String
max_width_float(v, max_width, remove_trail) ==
    LET value   == FormatPrec(v, max_width)
        integer == SplitHead(value)
    IN  IF Len(integer) + 1 >= max_width THEN FormatPrec(v, 0)
        ELSE LET value2 == FormatPrec(v, max_width - Len(integer) - 1)
             IN  IF remove_trail
                 THEN trim_end_matches(trim_end_matches(value2, "0"), ".")
                 ELSE value2

\* {:>width$}: s right-aligned in width columns.
RECURSIVE PadLeft(_, _)
PadLeft(s, width) == IF Len(s) >= width THEN s ELSE PadLeft(<<" ">> \o s, width)

\* The number of significant bits of a mantissa.
RECURSIVE BitsFrom(_, _)
BitsFrom(m, i) ==
    IF i = 0 THEN 0
    ELSE IF m[i] # 0 THEN Base10Bits(i) + BitLen(m[i])
    ELSE BitsFrom(m, i - 1)

\* f < g for two fractions of the same length.
FracLess(f, g) ==
    \E i \in 1..Len(f) : f[i] < g[i] /\ \A j \in 1..(i - 1) : f[j] = g[j]

\* 1 - f for a fraction f # 0.
OneMinus(f) ==
    LET n == Len(f)
        cy[j \in 1..(n + 1)] ==
            IF j = n + 1 THEN 1 ELSE (Base - 1 - f[j] + cy[j + 1]) \div Base
    IN  AsTuple([j \in 1..n |-> (Base - 1 - f[j] + cy[j + 1]) % Base])

\* The digits of the shortest decimal within half an ulp of the value: acc holds
\* the digits so far, f what is left of the fraction, hi + h the half ulp, both
\* in units of the last digit of acc.  Of two decimals of one length the closer
\* one is taken.
RECURSIVE ShortestDigits(_, _, _, _, _)
ShortestStep(acc, m, hi, mh, even) ==
    LET hi2 == hi * 10 + mh.digit
        ds == Append(acc, m.digit)
        within(e) == hi2 >= 1 \/ FracLess(e, mh.rest) \/ (even /\ e = mh.rest)
        exact  == \A j \in 1..Len(m.rest) : m.rest[j] = 0
        downOk == exact \/ within(m.rest)
        upOk   == ~exact /\ within(OneMinus(m.rest))
        c      == CmpHalf(m.rest)
        pickUp == upOk /\ (~downOk \/ c = 1 \/ (c = 0 /\ m.digit % 2 = 1))
    IN  IF downOk \/ upOk
        THEN [digits |-> IF pickUp THEN IncDigits(ds) ELSE ds, places |-> 1]
        ELSE LET t == ShortestDigits(ds, m.rest, hi2, mh.rest, even)
             IN  [digits |-> t.digits, places |-> t.places + 1]

ShortestDigits(acc, f, hi, h, even) == ShortestStep(acc, Mul10(f), hi, Mul10(h), even)

\* format!("{:2}", v): Display of an f64, the shortest decimal that reads back as
\* v, right-aligned in two columns.  v is 0 or at least 2^-10 here, so half an
\* ulp is a power of two between 2^-64 and 1/2 and the integer part is exact.
FormatDisplay(v) ==
    IF v.nan THEN <<"N", "a", "N">>
    ELSE LET ip   == DecDigits(IntPart(v))
             chr(ds) == AsTuple([i \in 1..Len(ds) |-> DigitChars[ds[i] + 1]])
             fr   == FracLimbs(v) \o <<0, 0, 0, 0, 0, 0, 0>>
             bits == BitsFrom(v.mant, NLimbs)
             y    == 54 + 10 * v.scale - bits          \* half an ulp is 2^-y
             j    == (y + 9) \div 10
             half == AsTuple([i \in 1..Len(fr) |->
                                 IF i = j THEN Pow2(10 * j - y) ELSE 0])
             low  == v.mant[2] * Base + v.mant[1]
             even == bits <= 52 \/ (low \div Pow2(bits - 53)) % 2 = 0
             t    == ShortestDigits(ip, fr, 0, half, even)
             n    == Len(t.digits) - t.places
         IN  PadLeft(IF \A i \in 1..Len(fr) : fr[i] = 0 THEN chr(ip)
                     ELSE chr(SubSeq(t.digits, 1, n)) \o <<".">>
                          \o chr(SubSeq(t.digits, n + 1, Len(t.digits))),
                     2)

(***************************************************************************)
(* pretty_size                                                             *)
(***************************************************************************)
\* The match with `<=` for `<` in its guards.
scale_unit_le(s) ==
    LET le(a, b) == a = b \/ LessThan(a, b)
        f == AsF64(s)
    IN  IF le(s, Lit(1000)) THEN [value |-> f, unit |-> <<"B">>]
        ELSE IF le(s, Lit(1000 * 1024))
        THEN [value |-> Div1024(f), unit |-> <<"K", "B">>]
        ELSE IF le(s, Lit(1000 * 1024 * 1024))
        THEN [value |-> Div1024(Div1024(f)), unit |-> <<"M", "B">>]
        ELSE IF le(s, Times1024(Lit(1000 * 1024 * 1024)))
        THEN [value |-> Div1024(Div1024(Div1024(f))), unit |-> <<"G", "B">>]
        ELSE [value |-> Div1024(Div1024(Div1024(Div1024(f)))), unit |-> <<"T", "B">>]

\* let (value, unit) = match s { ... }
scale_unit(s) ==
    LET f == AsF64(s)
    IN  IF LessThan(s, Lit(1000)) THEN [value |-> f, unit |-> <<"B">>]
        ELSE IF LessThan(s, Lit(1000 * 1024))
        THEN [value |-> Div1024(f), unit |-> <<"K", "B">>]
        ELSE IF LessThan(s, Lit(1000 * 1024 * 1024))
        THEN [value |-> Div1024(Div1024(f)), unit |-> <<"M", "B">>]
        ELSE IF LessThan(s, Times1024(Lit(1000 * 1024 * 1024)))
        THEN [value |-> Div1024(Div1024(Div1024(f))), unit |-> <<"G", "B">>]
        ELSE [value |-> Div1024(Div1024(Div1024(Div1024(f)))), unit |-> <<"T", "B">>]

\* let value_str = if fix_length { ... } else { ... }   (max_width >= 2)
value_str(s, fix_length, max_width) ==
    IF fix_length THEN max_width_float(scale_unit(s).value, max_width - 2, TRUE)
    ELSE FormatDisplay(scale_unit(s).value)

\* fn pretty_size(s: u64, fix_length: bool, max_width: usize) -> String
pretty_size(s, fix_length, max_width) ==
    value_str(s, fix_length, max_width) \o scale_unit(s).unit

(***************************************************************************)
(* Bounds and the inputs the environment supplies                          *)
(***************************************************************************)
\* Metric flags one command line holds at most (the thread count).
MaxOps == 3
\* The widest column budget the formatter is called with.
MaxWidth == 8

\* Arguments that match no arm of the match on arg.
UnknownArgs == {"--bogus", "--Net"}

\* What may follow --interval: decimal numbers, and text that is none.
GoodIntervals == {<<"0">>, <<"1">>, <<"2">>, <<"+", "2">>}
BadIntervals == {<<>>, <<"x">>, <<"-", "1">>, <<"1", ".", "5">>, <<"-", "-", "n", "e", "t">>}
Missing == <<"<none>">>

\* network_bytes(): (sent, received) summed over the interfaces that count.  A
\* counter near u64::MAX may wrap to a small one between two calls.
NetSnapshots ==
    { <<wrapping_sub(MAX, Lit(1023)), Lit(476)>>,
      <<Zero, Lit(1500)>> }

\* system.processors() after refresh_cpu(): each core's cpu_usage(), in 1/1024 %.
CpuSnapshots == { <<>>, <<5 * 1024, 5 * 1024 + 256>> }

\* total_memory(), used_memory(), total_swap(), used_swap(), in KiB.
MemSnapshots ==
    { [total_mem |-> Lit(8 * 1024 * 1024), used_mem |-> Lit(1536 * 1024),
       total_swap |-> Zero, used_swap |-> Zero],
      [total_mem |-> Lit(1000), used_mem |-> Lit(999),
       total_swap |-> Lit(2 * 1024 * 1024), used_swap |-> Lit(1024)] }

(***************************************************************************)
(* The renderers                                                           *)
(***************************************************************************)
\* impl Default for Config
DefaultConfig == [with_icons |-> FALSE, interval |-> 1, fix_length |-> TRUE]

\* str::parse::<u64>: -1 for Err, else the number.
parse_u64(tok) ==
    LET ds == IF Len(tok) > 0 /\ tok[1] = "+" THEN Tail(tok) ELSE tok
        IsDigit(c) == \E d \in 1..10 : DigitChars[d] = c
        ValOf(c) == (CHOOSE d \in 1..10 : DigitChars[d] = c) - 1
        num[i \in 0..Len(ds)] == IF i = 0 THEN 0 ELSE num[i - 1] * 10 + ValOf(ds[i])
    IN  IF Len(ds) = 0 \/ \E i \in 1..Len(ds) : ~IsDigit(ds[i]) THEN -1
        ELSE num[Len(ds)]

\* network_bandwidth, lines 36-37 before the division: the two deltas.
deltas(first, second) ==
    <<wrapping_sub(second[1], first[1]), wrapping_sub(second[2], first[2])>>

\* network_bandwidth, lines 35-37: up_bandwidth and down_bandwidth.  seconds # 0.
bandwidths(first, second, seconds) ==
    <<DivSmall(deltas(first, second)[1], seconds),
      DivSmall(deltas(first, second)[2], seconds)>>

\* fn network_bandwidth: what it returns from the two snapshots.
network_bandwidth(config, first, second) ==
    LET seconds == config.interval
        up_bandwidth   == bandwidths(first, second, seconds)[1]
        down_bandwidth == bandwidths(first, second, seconds)[2]
        up_name   == IF config.with_icons THEN <<"U+F062", " ">>
                     ELSE <<"U", "P", ":", " ">>
        done_name == IF config.with_icons THEN <<"U+F063", " ">>
                     ELSE <<"D", "O", "W", "N", ":", " ">>
        width == 6
    IN  up_name \o PadLeft(pretty_size(up_bandwidth, config.fix_length, width), width)
        \o <<"/", "s", " ">> \o done_name
        \o PadLeft(pretty_size(down_bandwidth, config.fix_length, width), width)
        \o <<"/", "s">>

\* fn mem
mem(config, m) ==
    LET memory_show == IF config.with_icons THEN <<"U+F85A", " ">>
                       ELSE <<"M", "E", "M", ":", " ">>
        swap_show   == IF config.with_icons THEN <<"U+F9E0">>
                       ELSE <<"S", "W", "P", ":", " ">>
        width == 6
    IN  memory_show
        \o PadLeft(pretty_size(Times1024(m.used_mem), config.fix_length, width), width)
        \o <<"/">> \o pretty_size(Times1024(m.total_mem), config.fix_length, width)
        \o <<" ">> \o swap_show
        \o PadLeft(pretty_size(Times1024(m.used_swap), config.fix_length, width), width)
        \o <<"/">> \o pretty_size(Times1024(m.total_swap), config.fix_length, width)

\* The sum of the cores' usage, in 1/1024 %.
RECURSIVE SumSeq(_)
SumSeq(q) == IF Len(q) = 0 THEN 0 ELSE q[1] + SumSeq(Tail(q))

\* processors.iter().map(|p| p.cpu_usage()).sum::<f32>() / processor_num as f32.
\* No cores: 0.0 / 0.0, which is NaN and no panic.  The snapshots are such that
\* the quotient is exact.
cpu_usage_avg(processors) ==
    IF Len(processors) = 0 THEN NaN
    ELSE [nan |-> FALSE,
          mant |-> Lit((SumSeq(processors) * Base) \div Len(processors)),
          scale |-> 2]

\* fn cpu: what it returns from the refreshed processors.
cpu(config, processors) ==
    LET cpu_show == IF config.with_icons THEN <<"U+F2DB", " ">>
                    ELSE <<"C", "P", "U", ":", " ">>
    IN  cpu_show \o PadLeft(max_width_float(cpu_usage_avg(processors), 4, FALSE), 4)

\* The Configs main can build, and the renderers tabulated over them and the
\* snapshots: a set of rows is evaluated once, where a call would be evaluated
\* once per step.
Intervals == { parse_u64(v) : v \in GoodIntervals } \cup {DefaultConfig.interval}

Configs == [with_icons : BOOLEAN, interval : Intervals, fix_length : BOOLEAN]

NetTable ==
    { <<c, first, second, network_bandwidth(c, first, second)>> :
        c \in {c \in Configs : c.interval # 0},
        first \in NetSnapshots, second \in NetSnapshots }

NetText(c, first, second) ==
    (CHOOSE r \in NetTable : r[1] = c /\ r[2] = first /\ r[3] = second)[4]

CpuTable == { <<c, p, cpu(c, p)>> : c \in Configs, p \in CpuSnapshots }

CpuText(c, processors) ==
    (CHOOSE r \in CpuTable : r[1] = c /\ r[2] = processors)[3]

MemTable == { <<c, m, mem(c, m)>> : c \in Configs, m \in MemSnapshots }

MemText(c, m) == (CHOOSE r \in MemTable : r[1] = c /\ r[2] = m)[3]

(***************************************************************************)
(* The process: main and the threads it spawns                             *)
(***************************************************************************)
NoCall == [fn |-> "none"]

procVars == <<supported, pc, cfg, ops, arg, val, threads, outputs, finished,
              stdout, stderr, exit_code>>

Init ==
    /\ supported \in BOOLEAN
    /\ pc = "start"
    /\ cfg = DefaultConfig
    /\ ops = <<>>
    /\ arg = <<>>
    /\ val = <<>>
    /\ threads = <<>>
    /\ outputs = <<>>
    /\ finished = <<>>
    /\ stdout = <<>>
    /\ stderr = <<>>
    /\ exit_code = -1
    /\ call = NoCall
    /\ ret = <<>>

\* process::exit(code), and a panic of the main thread (status 101): the process
\* is gone, its threads with it.
Exit(code, msg) ==
    /\ pc' = "exited"
    /\ exit_code' = code
    /\ stderr' = IF msg = <<>> THEN stderr ELSE Append(stderr, msg)

\* if !System::IS_SUPPORTED { eprintln!(..); process::exit(1); }
CheckSupported ==
    /\ pc = "start"
    /\ IF supported
       THEN pc' = "parse" /\ UNCHANGED <<exit_code, stderr>>
       ELSE Exit(1, <<"This OS is not supported!">>)
    /\ UNCHANGED <<supported, cfg, ops, arg, val, threads, outputs, finished,
                   stdout, call, ret>>

\* "--net" | "--cpu" | "--mem" => ops.push(..)
ArgMetric ==
    /\ pc = "parse"
    /\ Len(ops) < MaxOps
    /\ \E a \in {"--net", "--cpu", "--mem"} :
          /\ arg' = <<a>>
          /\ ops' = Append(ops, CASE a = "--net" -> "network_bandwidth"
                                  [] a = "--cpu" -> "cpu"
                                  [] a = "--mem" -> "mem")
    /\ UNCHANGED <<supported, pc, cfg, val, threads, outputs, finished,
                   stdout, stderr, exit_code, call, ret>>

\* "--with-icons" => cfg.with_icons = true
ArgWithIcons ==
    /\ pc = "parse"
    /\ arg' = <<"--with-icons">>
    /\ cfg' = [cfg EXCEPT !.with_icons = TRUE]
    /\ UNCHANGED <<supported, pc, ops, val, threads, outputs, finished,
                   stdout, stderr, exit_code, call, ret>>

\* "--no-fix-length" => cfg.fix_length = false
ArgNoFixLength ==
    /\ pc = "parse"
    /\ arg' = <<"--no-fix-length">>
    /\ cfg' = [cfg EXCEPT !.fix_length = FALSE]
    /\ UNCHANGED <<supported, pc, ops, val, threads, outputs, finished,
                   stdout, stderr, exit_code, call, ret>>

\* "--interval" => args_iter.next().expect(..).parse::<u64>().expect(..)
ArgInterval ==
    /\ pc = "parse"
    /\ arg' = <<"--interval">>
    /\ \E v \in GoodIntervals \cup BadIntervals \cup {Missing} :
          /\ val' = v
          /\ IF v = Missing
             THEN Exit(101, <<"missing value for interval">>) /\ cfg' = cfg
             ELSE IF parse_u64(v) < 0
             THEN Exit(101, <<"bad interval">>) /\ cfg' = cfg
             ELSE /\ cfg' = [cfg EXCEPT !.interval = parse_u64(v)]
                  /\ UNCHANGED <<pc, exit_code, stderr>>
    /\ UNCHANGED <<supported, ops, threads, outputs, finished, stdout, call, ret>>

\* An argument loop that skips what it does not know.
ArgUnknownIgnored ==
    /\ pc = "parse"
    /\ \E a \in UnknownArgs : arg' = <<a>>
    /\ UNCHANGED <<supported, pc, cfg, ops, val, threads, outputs, finished,
                   stdout, stderr, exit_code, call, ret>>

\* _ => { eprintln!("unknown option: {}", arg); process::exit(1); }
ArgUnknown ==
    /\ pc = "parse"
    /\ \E a \in UnknownArgs :
          /\ arg' = <<a>>
          /\ Exit(1, <<"unknown option: ", a>>)
    /\ UNCHANGED <<supported, cfg, ops, val, threads, outputs, finished,
                   stdout, call, ret>>

\* args_iter.next() is None: the loop ends and the spawn loop begins.
ArgsEnd ==
    /\ pc = "parse"
    /\ arg' = <<>>
    /\ val' = <<>>
    /\ pc' = IF Len(ops) = 0 THEN "join" ELSE "spawn"
    /\ UNCHANGED <<supported, cfg, ops, threads, outputs, finished,
                   stdout, stderr, exit_code, call, ret>>

\* A thread as thread::spawn leaves it: the closure holds i, op and localcfg.
NewThread(i) ==
    [i |-> i, op |-> ops[i], localcfg |-> cfg, st |-> "spawned",
     first |-> <<>>, processors |-> <<>>, text |-> <<>>]

\* A spawn loop that waits for the thread before it spawns the next.
SpawnAfterPrevious ==
    /\ pc = "spawn"
    /\ \A j \in 1..Len(threads) : threads[j].st \in {"done", "panicked"}
    /\ threads' = Append(threads, NewThread(Len(threads) + 1))
    /\ pc' = IF Len(threads') = Len(ops) THEN "join" ELSE "spawn"
    /\ UNCHANGED <<supported, cfg, ops, arg, val, outputs, finished,
                   stdout, stderr, exit_code, call, ret>>

\* threads.push(thread::spawn(move || (i, op(&localcfg)))), once per op
Spawn ==
    /\ pc = "spawn"
    /\ threads' = Append(threads, NewThread(Len(threads) + 1))
    /\ pc' = IF Len(threads') = Len(ops) THEN "join" ELSE "spawn"
    /\ UNCHANGED <<supported, cfg, ops, arg, val, outputs, finished,
                   stdout, stderr, exit_code, call, ret>>

Running == pc \in {"spawn", "join"}

\* network_bandwidth, lines 32-33: the first snapshot, then the sleep begins.
NetSnapshot(i) ==
    /\ Running
    /\ threads[i].op = "network_bandwidth" /\ threads[i].st = "spawned"
    /\ \E first \in NetSnapshots :
          threads' = [threads EXCEPT ![i].st = "sleeping", ![i].first = first]
    /\ UNCHANGED <<supported, pc, cfg, ops, arg, val, outputs, finished,
                   stdout, stderr, exit_code, call, ret>>

\* network_bandwidth, lines 34-46: the sleep is over; the second snapshot, the
\* rates (a division by zero seconds panics the thread) and the text.
NetRender(i) ==
    /\ Running
    /\ threads[i].op = "network_bandwidth" /\ threads[i].st = "sleeping"
    /\ finished' = IF finished = <<>> THEN <<i>> ELSE finished
    /\ \E second \in NetSnapshots :
          IF threads[i].localcfg.interval = 0
          THEN /\ threads' = [threads EXCEPT ![i].st = "panicked", ![i].first = <<>>]
               /\ stderr' = Append(stderr, <<"attempt to divide by zero">>)
          ELSE /\ threads' = [threads EXCEPT
                     ![i].st = "done", ![i].first = <<>>,
                     ![i].text = NetText(threads[i].localcfg,
                                            threads[i].first, second)]
               /\ stderr' = stderr
    /\ UNCHANGED <<supported, pc, cfg, ops, arg, val, outputs,
                   stdout, exit_code, call, ret>>

\* cpu, lines 119-121: the System is built, then the sleep begins.
CpuSleep(i) ==
    /\ Running
    /\ threads[i].op = "cpu" /\ threads[i].st = "spawned"
    /\ threads' = [threads EXCEPT ![i].st = "sleeping"]
    /\ UNCHANGED <<supported, pc, cfg, ops, arg, val, outputs, finished,
                   stdout, stderr, exit_code, call, ret>>

\* cpu, lines 122-132: refresh_cpu(), the average over the processors, the text.
CpuRender(i) ==
    /\ Running
    /\ threads[i].op = "cpu" /\ threads[i].st = "sleeping"
    /\ finished' = IF finished = <<>> THEN <<i>> ELSE finished
    /\ \E processors \in CpuSnapshots :
          threads' = [threads EXCEPT
              ![i].st = "done", ![i].processors = <<Len(processors)>>,
              ![i].text = CpuText(threads[i].localcfg, processors)]
    /\ UNCHANGED <<supported, pc, cfg, ops, arg, val, outputs,
                   stdout, stderr, exit_code, call, ret>>

\* mem: one snapshot, no sleep.
MemRender(i) ==
    /\ Running
    /\ threads[i].op = "mem" /\ threads[i].st = "spawned"
    /\ finished' = IF finished = <<>> THEN <<i>> ELSE finished
    /\ \E m \in MemSnapshots :
          threads' = [threads EXCEPT
              ![i].st = "done", ![i].text = MemText(threads[i].localcfg, m)]
    /\ UNCHANGED <<supported, pc, cfg, ops, arg, val, outputs,
                   stdout, stderr, exit_code, call, ret>>

\* A join that puts a placeholder in the place of a thread that panicked.
JoinOrFallback ==
    /\ pc = "join"
    /\ Len(outputs) < Len(threads)
    /\ LET t == threads[Len(outputs) + 1]
       IN  /\ t.st \in {"done", "panicked"}
           /\ outputs' = Append(outputs,
                                <<t.i, IF t.st = "done" THEN t.text ELSE <<"?">>>>)
    /\ UNCHANGED <<supported, pc, cfg, ops, arg, val, threads, finished,
                   stdout, stderr, exit_code, call, ret>>

\* outputs.push(t.join().unwrap()) for the next thread of the vector: it waits
\* until the thread has ended, and unwrap panics main when the thread panicked.
Join ==
    /\ pc = "join"
    /\ Len(outputs) < Len(threads)
    /\ LET t == threads[Len(outputs) + 1]
       IN  /\ t.st \in {"done", "panicked"}
           /\ IF t.st = "done"
              THEN /\ outputs' = Append(outputs, <<t.i, t.text>>)
                   /\ UNCHANGED <<pc, stderr, exit_code>>
              ELSE /\ Exit(101, <<"called Result::unwrap() on an Err value">>)
                   /\ outputs' = outputs
    /\ UNCHANGED <<supported, cfg, ops, arg, val, threads, finished,
                   stdout, call, ret>>

\* <<i, s>> put into a list sorted by i, after the entries with the same i.
RECURSIVE InsertByKey(_, _)
InsertByKey(sorted, e) ==
    IF Len(sorted) = 0 THEN <<e>>
    ELSE IF sorted[Len(sorted)][1] <= e[1] THEN Append(sorted, e)
    ELSE Append(InsertByKey(SubSeq(sorted, 1, Len(sorted) - 1), e),
                sorted[Len(sorted)])

\* A sort with the order of the keys reversed.
RECURSIVE sort_by_key_reversed(_)
sort_by_key_reversed(q) ==
    IF Len(q) = 0 THEN <<>>
    ELSE LET r == sort_by_key_reversed(Tail(q))
             less == SelectSeq(r, LAMBDA e : e[1] > q[1][1])
             more == SelectSeq(r, LAMBDA e : e[1] <= q[1][1])
         IN  less \o <<q[1]>> \o more

\* outputs.sort_by_key(|(i, _)| *i): a stable sort.
RECURSIVE sort_by_key(_)
sort_by_key(q) ==
    IF Len(q) = 0 THEN <<>>
    ELSE InsertByKey(sort_by_key(SubSeq(q, 1, Len(q) - 1)), q[Len(q)])

\* [String]::join(sep)
RECURSIVE join(_, _)
join(strs, sep) ==
    IF Len(strs) = 0 THEN <<>>
    ELSE IF Len(strs) = 1 THEN strs[1]
    ELSE strs[1] \o sep \o join(Tail(strs), sep)

\* Lines 194-196, once every thread is joined: sort, drop the keys, print.
PrintLine ==
    /\ pc = "join"
    /\ Len(outputs) = Len(threads)
    /\ LET sorted == sort_by_key(outputs)
           texts  == AsTuple([k \in 1..Len(sorted) |-> sorted[k][2]])
       IN  stdout' = Append(stdout, join(texts, <<" ">>))
    /\ Exit(0, <<>>)
    /\ UNCHANGED <<supported, cfg, ops, arg, val, threads, outputs, finished,
                   call, ret>>

Next ==
    \/ CheckSupported
    \/ ArgMetric
    \/ ArgWithIcons
    \/ ArgNoFixLength
    \/ ArgInterval
    \/ ArgUnknown
    \/ ArgsEnd
    \/ Spawn
    \/ \E i \in 1..Len(threads) : NetSnapshot(i)
    \/ \E i \in 1..Len(threads) : NetRender(i)
    \/ \E i \in 1..Len(threads) : CpuSleep(i)
    \/ \E i \in 1..Len(threads) : CpuRender(i)
    \/ \E i \in 1..Len(threads) : MemRender(i)
    \/ Join
    \/ PrintLine

Spec == Init /\ [][Next]_vars

(***************************************************************************)
(* The formatter and the sampler on their own: one call, one return        *)
(***************************************************************************)
\* The process before it starts; it takes no step in these specifications.
Idle ==
    /\ supported = TRUE
    /\ pc = "start"
    /\ cfg = DefaultConfig
    /\ ops = <<>>
    /\ arg = <<>>
    /\ val = <<>>
    /\ threads = <<>>
    /\ outputs = <<>>
    /\ finished = <<>>
    /\ stdout = <<>>
    /\ stderr = <<>>
    /\ exit_code = -1

\* The u64 with digit lead at place k, digit next below it and fill below that.
Limbs(k, lead, next, fill) ==
    AsTuple([i \in 1..NLimbs |->
        IF i = k THEN lead
        ELSE IF i = k - 1 THEN next
        ELSE IF i < k - 1 THEN fill
        ELSE 0])

\* Byte counts around every unit threshold, around the ties and the carries of
\* the rounding, whole numbers of each unit, and the ends of the u64 range.
LeadVals == {1, 2, 9, 10, 15, 99, 100, 512, 998, 999, 1000, 1001, 1023}
NextVals == {0, 1, 51, 102, 511, 512, 513, 1000, 1014, 1023}
FillVals == {0, 1, 1023}

FmtValues ==
    {Zero} \cup
    { v \in { Limbs(k, lead, next, fill) :
                k \in 1..NLimbs, lead \in LeadVals,
                next \in NextVals, fill \in FillVals } : v[NLimbs] < TopBase }

InitFmt ==
    /\ Idle
    /\ ret = <<>>
    /\ call \in
         [fn : {"pretty_size"}, s : FmtValues, fix_length : {TRUE},
          max_width : 2..MaxWidth]
         \cup [fn : {"pretty_size"}, s : FmtValues, fix_length : {FALSE},
               max_width : {6}]

\* pretty_size returns.
ReturnPrettySize ==
    /\ call.fn = "pretty_size"
    /\ ret = <<>>
    /\ ret' = pretty_size(call.s, call.fix_length, call.max_width)
    /\ UNCHANGED <<procVars, call>>

NextFmt == ReturnPrettySize

SpecFmt == InitFmt /\ [][NextFmt]_vars

\* The longest interval the sampler is called with.
MaxInterval == 2

\* Counters at both ends of the u64 range and at the digit boundaries between.
CounterVals ==
    { Zero, Lit(1), Lit(1023), Lit(1024), Limbs(4, 1, 0, 0), Limbs(4, 0, 1023, 1023),
      Limbs(NLimbs, 8, 0, 0), Limbs(NLimbs, 7, 1023, 1023),
      wrapping_sub(MAX, Lit(1024)), wrapping_sub(MAX, Lit(1)), MAX }

InitRate ==
    /\ Idle
    /\ ret = <<>>
    /\ call \in
         [fn : {"network_bandwidth"},
          first : CounterVals \X {Zero, MAX}, second : CounterVals \X {Lit(1), MAX},
          seconds : 1..MaxInterval]
         \cup [fn : {"network_bandwidth"},
               first : {Zero, MAX} \X CounterVals, second : {Lit(1), MAX} \X CounterVals,
               seconds : 1..MaxInterval]

\* network_bandwidth has computed its deltas and bandwidths (line 37).
ReturnBandwidths ==
    /\ call.fn = "network_bandwidth"
    /\ ret = <<>>
    /\ ret' = [delta |-> deltas(call.first, call.second),
               bandwidth |-> bandwidths(call.first, call.second, call.seconds)]
    /\ UNCHANGED <<procVars, call>>

NextRate == ReturnBandwidths

SpecRate == InitRate /\ [][NextRate]_vars

(***************************************************************************)
(* Properties                                                              *)
(***************************************************************************)
\* The text pretty_size returned, split into its number and its unit.
Returned == call.fn = "pretty_size" /\ ret # <<>>

UnitLen(text) ==
    IF Len(text) >= 2 /\ text[Len(text) - 1] \in {"K", "M", "G", "T"} THEN 2 ELSE 1

UnitOf(text) == SubSeq(text, Len(text) - UnitLen(text) + 1, Len(text))

NumericPortion(text) == SubSeq(text, 1, Len(text) - UnitLen(text))

HasPoint(text) == \E i \in 1..Len(text) : text[i] = "."

\* The number a run of decimal digits (and leading blanks) denotes.
RECURSIVE DecimalOf(_)
DecimalOf(text) ==
    IF Len(text) = 0 THEN 0
    ELSE LET c == text[Len(text)]
             d == IF c = " " THEN 0 ELSE (CHOOSE k \in 1..10 : DigitChars[k] = c) - 1
         IN  DecimalOf(SubSeq(text, 1, Len(text) - 1)) * 10 + d

\* The whole part of the number shown.
RECURSIVE UpToPoint(_)
UpToPoint(text) ==
    IF Len(text) = 0 \/ text[1] = "." THEN <<>>
    ELSE <<text[1]>> \o UpToPoint(Tail(text))

ShownWhole(text) == DecimalOf(UpToPoint(NumericPortion(text)))

\* s < 1000 * 1024^k, read off the base-1024 digits of s.
Below(s, k) == s[k + 1] < 1000 /\ \A i \in (k + 2)..NLimbs : s[i] = 0

\* The power of 1024 the thresholds assign to s, and its unit.
UnitPower(s) ==
    IF Below(s, 0) THEN 0
    ELSE IF Below(s, 1) THEN 1
    ELSE IF Below(s, 2) THEN 2
    ELSE IF Below(s, 3) THEN 3
    ELSE 4

UnitNames == <<<<"B">>, <<"K", "B">>, <<"M", "B">>, <<"G", "B">>, <<"T", "B">>>>

\* floor(s / 1024^k)
RECURSIVE FloorFrom(_, _)
FloorFrom(s, i) == IF i > NLimbs THEN 0 ELSE s[i] + Base * FloorFrom(s, i + 1)

FloorScaled(s) == FloorFrom(s, UnitPower(s) + 1)

\* s is a whole number of its unit.
WholeUnits(s) == \A i \in 1..UnitPower(s) : s[i] = 0

\* a + b modulo 2^64, and MAX - a.
AddMod(a, b) ==
    LET cy[i \in 1..NLimbs] ==
            IF i = 1 THEN 0
            ELSE (a[i - 1] + b[i - 1] + cy[i - 1]) \div LimbBase(i - 1)
    IN  AsTuple([i \in 1..NLimbs |-> (a[i] + b[i] + cy[i]) % LimbBase(i)])

Complement(a) == AsTuple([i \in 1..NLimbs |-> LimbBase(i) - 1 - a[i]])

\* c2 < c1, from the top digit down.
RECURSIVE Smaller(_, _, _)
Smaller(c2, c1, i) ==
    IF i = 0 THEN FALSE
    ELSE IF c2[i] # c1[i] THEN c2[i] < c1[i]
    ELSE Smaller(c2, c1, i - 1)

\* The fragments of the threads, in request order, as one line.
RECURSIVE RequestedLine(_)
RequestedLine(k) ==
    IF k = 0 THEN <<>>
    ELSE IF k = 1 THEN threads[1].text
    ELSE RequestedLine(k - 1) \o <<" ">> \o threads[k].text

\* What a fragment of each renderer begins with.
Label(op, config) ==
    CASE op = "network_bandwidth" ->
           IF config.with_icons THEN "U+F062" ELSE "U"
      [] op = "cpu" -> IF config.with_icons THEN "U+F2DB" ELSE "C"
      [] op = "mem" -> IF config.with_icons THEN "U+F85A" ELSE "M"

\* C1: once the line is printed, it is the fragments of the renderers in the
\* order of their flags on the command line, the i-th fragment being the output
\* of the renderer requested i-th, whatever the order the threads ended in.
C1_OutputOrdering ==
    (pc = "exited" /\ exit_code = 0) =>
        /\ Len(threads) = Len(ops)
        /\ stdout = <<RequestedLine(Len(threads))>>
        /\ \A i \in 1..Len(threads) :
              /\ threads[i].op = ops[i]
              /\ threads[i].st = "done"
              /\ threads[i].text[1] = Label(ops[i], threads[i].localcfg)

\* Three renderers, printed, the one requested last having ended first.
C1_Witness ==
    /\ pc = "exited" /\ exit_code = 0
    /\ Len(ops) = 3
    /\ ops[1] # ops[2] /\ ops[2] # ops[3]
    /\ finished = <<3>>
    /\ stdout # <<>>

\* C2: each delta of the sampler is a u64 (never negative); it is
\* (MAX - c1) + c2 + 1 modulo 2^64 when the counter went down (c2 < c1) and
\* c2 - c1 otherwise, for the sent and for the received direction.
C2_WrappingDelta ==
    (call.fn = "network_bandwidth" /\ ret # <<>>) =>
        \A d \in 1..2 :
            LET c1 == call.first[d]
                c2 == call.second[d]
                delta == ret.delta[d]
            IN  /\ delta \in U64
                /\ IF Smaller(c2, c1, NLimbs)
                   THEN delta = AddMod(AddMod(Complement(c1), c2), Lit(1))
                   ELSE AddMod(delta, c1) = c2 /\ ~Smaller(c2, delta, NLimbs)

\* A counter that wrapped from MAX - 1 to 1: the delta is 3.
C2_Witness ==
    /\ call.fn = "network_bandwidth" /\ ret # <<>>
    /\ call.first[1] = Complement(Lit(1))
    /\ call.second[1] = Lit(1)
    /\ ret.delta[1] = Lit(3)

\* C3: the unit of the text is B below 1000, KB from 1000 to below 1000 * 1024,
\* MB, GB likewise and TB from 1000 * 1024^3 on, a value on a boundary taking
\* the higher unit; the number shown is the value over the matching power of
\* 1024: its whole part is that quotient's, or one more where it rounded up.
C3_UnitBoundaries ==
    Returned =>
        /\ UnitOf(ret) = UnitNames[UnitPower(call.s) + 1]
        /\ ShownWhole(ret) \in {FloorScaled(call.s), FloorScaled(call.s) + 1}

\* 1000 * 1024 bytes, on the boundary, come out in MB.
C3_Witness ==
    /\ Returned
    /\ call.s = Lit(1000 * 1024)
    /\ call.fix_length /\ call.max_width = 7
    /\ ret = <<"0", ".", "9", "7", "7", "M", "B">>

\* C4 as the specification words it: in fixed-width mode the numeric portion
\* is at most b characters long, for every budget b >= 2.
C4_WidthAtMostBudget ==
    (Returned /\ call.fix_length) => Len(NumericPortion(ret)) <= call.max_width

\* The most digits the rounded whole part of a scaled value has.
WholeDigits(s) == IF UnitPower(s) = 4 /\ ~Below(s, 4) THEN 8 ELSE 4

Larger(a, b) == IF a >= b THEN a ELSE b

\* C4: in fixed-width mode a numeric portion with a decimal point is at most
\* b - 2 characters long, and one without is a whole number of at most 4 digits
\* (8 from 1000 * 1024^4 bytes on); so it is at most b characters long for
\* b >= 4 below 1000 * 1024^4 bytes, and for b >= 8 always.
C4_WidthContract ==
    (Returned /\ call.fix_length) =>
        LET num == NumericPortion(ret)
            b   == call.max_width
        IN  /\ HasPoint(num) => Len(num) <= b - 2
            /\ Len(num) <= Larger(b - 2, WholeDigits(call.s))
            /\ (b >= 4 /\ Below(call.s, 4)) => Len(num) <= b
            /\ b >= 8 => Len(num) <= b

\* 999 bytes with a budget of 2: the three digits are all shown.
C4_Witness ==
    /\ Returned /\ call.fix_length
    /\ call.max_width = 2
    /\ call.s = Lit(999)
    /\ ret = <<"9", "9", "9", "B">>

\* C5: in fixed-width mode the numeric portion never ends in a point, never
\* ends in a 0 after a point, and has no point at all for a whole number of
\* the unit.
C5_TrailingZeros ==
    (Returned /\ call.fix_length) =>
        LET num == NumericPortion(ret)
        IN  /\ Len(num) > 0
            /\ num[Len(num)] # "."
            /\ HasPoint(num) => num[Len(num)] # "0"
            /\ WholeUnits(call.s) => ~HasPoint(num)

\* 1024 bytes are "1KB".
C5_Witness ==
    /\ Returned /\ call.fix_length
    /\ call.s = Lit(1024)
    /\ call.max_width = 7
    /\ ret = <<"1", "K", "B">>

\* The argument last read is an error of the command line.
ConfigError ==
    \/ arg # <<>> /\ arg[1] \in UnknownArgs
    \/ arg = <<"--interval">> /\ val \in BadIntervals \cup {Missing}

\* C6: an unknown flag, or an --interval with no value or one that is no
\* number, ends the process at once with a status that is not 0: no thread was
\* spawned, no snapshot taken, and standard output is empty.
C6_ConfigErrorsStop ==
    ConfigError =>
        /\ pc = "exited"
        /\ exit_code > 0
        /\ threads = <<>> /\ outputs = <<>> /\ finished = <<>>
        /\ stdout = <<>>

\* --net --interval x: the error comes after a metric flag.
C6_Witness ==
    /\ ConfigError
    /\ ops = <<"network_bandwidth">>
    /\ val = <<"x">>
    /\ pc = "exited" /\ exit_code = 101

\* C7: main spawns every thread before it joins one, and no spawn waits for a
\* thread spawned before; the line is printed only when every thread spawned
\* has been joined.
C7_FanOut ==
    /\ pc = "spawn" => ENABLED Spawn
    /\ (pc = "join" \/ outputs # <<>>) => Len(threads) = Len(ops)
    /\ stdout # <<>> => Len(outputs) = Len(threads) /\ Len(threads) = Len(ops)

\* The sleeps of a cpu and a network thread overlap while main still spawns.
C7_Witness ==
    /\ pc = "spawn"
    /\ \E i, j \in 1..Len(threads) :
          /\ threads[i].op = "cpu" /\ threads[i].st = "sleeping"
          /\ threads[j].op = "network_bandwidth" /\ threads[j].st = "sleeping"

\* C8: every network thread runs with an interval of at least 1 second, and
\* none panics on the division by the seconds.
C8_IntervalAtLeastOne ==
    \A i \in 1..Len(threads) :
        threads[i].op = "network_bandwidth" =>
            threads[i].localcfg.interval >= 1 /\ threads[i].st # "panicked"

\* C9: once a thread has panicked nothing is ever printed, no fragment of
\* another thread and no text in the place of the missing one, and the process
\* ends with a status that is not 0.
C9_NoPartialOutput ==
    (\E i \in 1..Len(threads) : threads[i].st = "panicked") =>
        /\ stdout = <<>>
        /\ pc = "exited" => exit_code > 0
        /\ \A k \in 1..Len(outputs) :
              /\ threads[outputs[k][1]].st = "done"
              /\ outputs[k][2] = threads[outputs[k][1]].text

\* The first thread was joined with its fragment, the second had panicked.
C9_Witness ==
    /\ pc = "exited" /\ exit_code = 101
    /\ Len(outputs) = 1
    /\ threads[2].st = "panicked"
    /\ stdout = <<>>

\* C10: a cpu thread whose snapshot holds no core returns no fragment, and no
\* line is printed.
C10_ZeroCoresFatal ==
    \A i \in 1..Len(threads) :
        (threads[i].op = "cpu" /\ threads[i].processors = <<0>>) =>
            /\ threads[i].st # "done"
            /\ threads[i].text = <<>>
            /\ stdout = <<>>

====
